---- MODULE Spec2Model ----
(***************************************************************************)
(* EnergyDashboard (src/app.py): a Flask application over a SQLite         *)
(* database (line 12) with six tables, CRUD routes, a relay-toggle route   *)
(* and a background thread that polls every sensor.                        *)
(*                                                                         *)
(* Steps.  The polling thread and the request handlers run concurrently    *)
(* (the development server is threaded).  A thread is cut where it blocks: *)
(* at requests.get (lines 67, 209) and at the interval wait (line 60); the *)
(* polling loop is cut between two sensors as well.  The add/delete routes *)
(* never block and are one action each.  Lines 73-87 of get_measurement    *)
(* are one write transaction: the flush of line 75 takes SQLite's write    *)
(* lock before the first MeasurementType query of line 78 and holds it up  *)
(* to the commit of line 87, so no other writer commits in between.        *)
(*                                                                         *)
(* Database.  Every table is a set of rows.  A primary key is              *)
(* "INTEGER PRIMARY KEY" without AUTOINCREMENT: a new row gets the largest *)
(* id in the table plus one, so the id of a deleted last row is used       *)
(* again.  SQLite does not enforce the foreign keys (no PRAGMA             *)
(* foreign_keys in the source); cascades are those of the ORM              *)
(* relationships of lines 20-47.  Columns no route reads back to take a    *)
(* decision (name, timestamp, value, unit) are left out of the rows.       *)
(*                                                                         *)
(* Session.  Each thread has its own SQLAlchemy session.  Query.get        *)
(* answers from the session's identity map, without SQL, when the object   *)
(* is loaded and not expired; a commit expires every object of the         *)
(* session, and the next attribute access reloads the row and raises       *)
(* ObjectDeletedError when the row is gone.                                *)
(***************************************************************************)
EXTENDS Integers, Sequences, FiniteSets, TLC

VARIABLES
    homes,          \* table home: set of ids
    rooms,          \* table room: rows [id, home_id]
    sensors,        \* table sensor: rows [id, room_id, url, data_endpoint, relay_endpoint]
    measurements,   \* table measurement: rows [id, sensor_id]
    types,          \* table measurement_type: rows [id, name]
    values,         \* table measurement_value: rows [id, measurement_id, measurement_type_id]
    pollPc,         \* background thread: "sleep", "visit", "await", "dead"
    pollList,       \* sensors of the running cycle still to visit, as loaded (line 91)
    pollExpired,    \* the thread's session has committed since the list was loaded
    togPc,          \* toggle handler: "idle", "relay", "data", or the status it answered
    togSensor,      \* the sensor object the toggle handler loaded (line 199)
    togUrl          \* the relay URL the toggle handler requested (line 206)

db == <<homes, rooms, sensors, measurements, types, values>>
poll == <<pollPc, pollList, pollExpired>>
tog == <<togPc, togSensor, togUrl>>
vars == <<homes, rooms, sensors, measurements, types, values,
          pollPc, pollList, pollExpired, togPc, togSensor, togUrl>>

----------------------------------------------------------------------------
(* Bounds of the model: the largest id each table may hand out. *)
MaxHomeId == 1
MaxRoomId == 1
MaxSensorId == 2
MaxMeasurementId == 2

(* Inputs. *)
None == "<None>"
Urls == {"http://s"}
FormRelay == [data_endpoint |-> "/status", relay_endpoint |-> "/relay?turn="]
FormPlain == [data_endpoint |-> "/status", relay_endpoint |-> ""]
FormBare == [data_endpoint |-> None, relay_endpoint |-> None]
FormSwitch == [data_endpoint |-> None, relay_endpoint |-> "/relay?turn="]
SensorForms == {FormRelay, FormPlain, FormBare, FormSwitch}
States == {"on", "off", None}
Keys == {"power", "relay"}
JsonKinds == {"int", "float", "bool", "str", "null", "list", "object"}

(* The tables no route deletes from, or that hold one row per key of a     *)
(* reading, are bounded by the inputs.                                     *)
MaxTypeId == Cardinality(Keys)
MaxValueId == MaxMeasurementId * Cardinality(Keys)

(* A JSON object: its members in document order, keys distinct. *)
Members(ks, js) == {[key |-> k, kind |-> j] : k \in ks, j \in js}
BodiesOf(ks, js) ==
    {<<>>}
    \cup { <<m>> : m \in Members(ks, js) }
    \cup { <<m1, m2>> : <<m1, m2>> \in {p \in Members(ks, js) \X Members(ks, js) :
                                          p[1].key # p[2].key} }
\* every kind of value alone, and two members of three kinds in either order.
Bodies == BodiesOf(Keys, {"float", "bool", "str"})
             \cup { <<m>> : m \in Members(Keys, JsonKinds) }

(* What requests.get(...) followed by response.json() can give. *)
Failures ==
    { [kind |-> "error"], [kind |-> "status"], [kind |-> "notjson"], [kind |-> "nonobject"] }
Json(bs) == { [kind |-> "json", body |-> b] : b \in bs }
JsonResponses == Json(Bodies)
DataResponses == Failures \cup JsonResponses
RelayResponses == {"ok", "status", "error"}

----------------------------------------------------------------------------
(* Helpers over tables. *)
Ids(rows) == {r.id : r \in rows}

Max(S) == CHOOSE m \in S : \A n \in S : n <= m

\* SQLite rowid allocation for INTEGER PRIMARY KEY.
NextId(ids) == IF ids = {} THEN 1 ELSE Max(ids) + 1

\* rows of a set sorted by id, as SELECT without ORDER BY scans the table.
RECURSIVE ById(_)
ById(rows) ==
    IF rows = {} THEN <<>>
    ELSE LET r == CHOOSE x \in rows : \A y \in rows : x.id <= y.id
         IN <<r>> \o ById(rows \ {r})

----------------------------------------------------------------------------
(* The ORM relationships of lines 20, 26, 35, 41: the rows a delete        *)
(* cascades to are the rows whose foreign key names a deleted parent.      *)
RoomsOf(hs) == {r \in rooms : r.home_id \in hs}
SensorsOf(rs) == {s \in sensors : s.room_id \in Ids(rs)}
\* Sensor.measurements without cascade="all, delete-orphan".
MeasurementsOfNoCascade(ss) == {}
MeasurementsOf(ss) == {m \in measurements : m.sensor_id \in Ids(ss)}
\* Measurement.values without cascade="all, delete-orphan".
ValuesOfNoCascade(ms) == {}
ValuesOf(ms) == {v \in values : v.measurement_id \in Ids(ms)}

\* db.session.delete(sensor) for each sensor of ss, then commit.
DeleteSensors(ss) ==
    /\ sensors' = sensors \ ss
    /\ measurements' = measurements \ MeasurementsOf(ss)
    /\ values' = values \ ValuesOf(MeasurementsOf(ss))

\* db.session.delete(room) for each room of rs, then commit.
DeleteRooms(rs) ==
    /\ rooms' = rooms \ rs
    /\ DeleteSensors(SensorsOf(rs))

----------------------------------------------------------------------------
(* The CRUD routes (POST). *)
add_home ==
    /\ NextId(homes) <= MaxHomeId
    /\ homes' = homes \cup {NextId(homes)}
    /\ UNCHANGED <<rooms, sensors, measurements, types, values, poll, tog>>

delete_home(home_id) ==
    /\ home_id \in homes                                   \* get_or_404
    /\ homes' = homes \ {home_id}
    /\ DeleteRooms(RoomsOf({home_id}))
    /\ UNCHANGED <<types, poll, tog>>

add_room(home_id) ==
    /\ NextId(Ids(rooms)) <= MaxRoomId
    /\ rooms' = rooms \cup {[id |-> NextId(Ids(rooms)), home_id |-> home_id]}
    /\ UNCHANGED <<homes, sensors, measurements, types, values, poll, tog>>

delete_room(room_id) ==
    /\ room_id \in Ids(rooms)                              \* get_or_404
    /\ DeleteRooms({r \in rooms : r.id = room_id})
    /\ UNCHANGED <<homes, types, poll, tog>>

add_sensor(room_id, url, form) ==
    /\ NextId(Ids(sensors)) <= MaxSensorId
    /\ sensors' = sensors \cup
          {[id |-> NextId(Ids(sensors)), room_id |-> room_id, url |-> url,
            data_endpoint |-> form.data_endpoint,
            relay_endpoint |-> form.relay_endpoint]}
    /\ UNCHANGED <<homes, rooms, measurements, types, values, poll, tog>>

delete_sensor(sensor_id) ==
    /\ sensor_id \in Ids(sensors)                          \* get_or_404
    /\ DeleteSensors({s \in sensors : s.id = sensor_id})
    /\ UNCHANGED <<homes, rooms, types, poll, tog>>

----------------------------------------------------------------------------
(* get_measurement, lines 73-87: the write transaction. *)

\* a test for numbers that leaves booleans out.
IsNumberNoBool(kind) == kind \in {"int", "float"}

\* isinstance(value, (int, float)); Python's bool is a subclass of int.
IsNumber(kind) == kind \in {"int", "float", "bool"}

\* a MeasurementType created without the query of line 78.
CreateWithoutLookup(ts, name) == ts \cup {[id |-> NextId(Ids(ts)), name |-> name]}

\* MeasurementType.query.filter_by(name=type_name).first(), created when absent
\* (lines 78-82): the table afterwards.
LookupOrCreate(ts, name) ==
    IF \E t \in ts : t.name = name THEN ts
    ELSE ts \cup {[id |-> NextId(Ids(ts)), name |-> name]}

\* the row .first() returns: the first one in table order.
FirstNamed(ts, name) ==
    CHOOSE t \in ts : t.name = name /\ \A u \in ts : u.name = name => t.id <= u.id

\* the loop of lines 76-86 over data.items(), for measurement id mid.
RECURSIVE StoreItems(_, _, _, _)
StoreItems(items, mid, ts, vs) ==
    IF items = <<>> THEN [types |-> ts, values |-> vs]
    ELSE LET it == Head(items) IN
         IF IsNumber(it.kind)
         THEN LET ts2 == LookupOrCreate(ts, it.key)
                  v == [id |-> NextId(Ids(vs)), measurement_id |-> mid,
                        measurement_type_id |-> FirstNamed(ts2, it.key).id]
              IN StoreItems(Tail(items), mid, ts2, vs \cup {v})
         ELSE StoreItems(Tail(items), mid, ts, vs)

\* lines 73-87 for Measurement(sensor_id=sensor.id) and the parsed object `data`.
StoreReading(sensor_id, data) ==
    LET mid == NextId(Ids(measurements))
        out == StoreItems(data, mid, types, values)
    IN /\ mid <= MaxMeasurementId
       /\ Ids(out.types) \subseteq 1..MaxTypeId
       /\ Ids(out.values) \subseteq 1..MaxValueId
       /\ measurements' = measurements \cup {[id |-> mid, sensor_id |-> sensor_id]}
       /\ types' = out.types
       /\ values' = out.values

\* the sensor row with this id, as a set (empty when there is none).
SensorRow(sensor_id) == {s \in sensors : s.id = sensor_id}

----------------------------------------------------------------------------
(* background_task / get_measurements / get_measurement in the polling     *)
(* thread (lines 56-94).                                                   *)

\* a loop of line 91 left after its first sensor.
PollBreak ==
    /\ pollList' = <<>>
    /\ pollPc' = "sleep"
    /\ pollExpired' = FALSE

\* the step to take after one sensor of the cycle is done (lines 91, 60).
PollAdvance ==
    /\ pollList' = Tail(pollList)
    /\ IF Tail(pollList) = <<>>
       THEN pollPc' = "sleep" /\ pollExpired' = FALSE
       ELSE pollPc' = "visit" /\ UNCHANGED pollExpired

\* an exception caught per sensor, the loop going on with the next one.
PollIsolate == PollAdvance

\* an exception leaves get_measurements and the while loop: the thread ends.
PollDie ==
    /\ pollPc' = "dead"
    /\ pollList' = <<>>
    /\ pollExpired' = FALSE

\* line 60 returns, line 59 calls get_measurements, line 91 loads the sensors.
PollCycle ==
    /\ pollPc = "sleep"
    /\ pollList' = ById(sensors)
    /\ pollExpired' = FALSE
    /\ pollPc' = IF sensors = {} THEN "sleep" ELSE "visit"
    /\ UNCHANGED <<db, tog>>

\* lines 92, 63-67 for the next sensor of the list, up to the GET being sent.
PollVisit ==
    /\ pollPc = "visit"
    /\ LET s == Head(pollList) IN
       IF pollExpired /\ SensorRow(s.id) = {}
       THEN PollDie                          \* sensor.id: ObjectDeletedError
       ELSE LET sensor == IF pollExpired
                          THEN CHOOSE x \in SensorRow(s.id) : TRUE
                          ELSE s             \* Query.get: the identity map
            IN IF sensor.data_endpoint = None
               THEN PollDie                  \* str + None: TypeError
               ELSE /\ pollPc' = "await"
                    /\ pollList' = <<sensor>> \o Tail(pollList)
                    /\ UNCHANGED pollExpired
    /\ UNCHANGED <<db, tog>>

\* requests.get of line 67 returns r (or raises); lines 68-88 and 93-94.
PollReceive(r) ==
    /\ pollPc = "await"
    /\ LET s == Head(pollList) IN
       CASE r.kind = "status" ->            \* status_code != 200: return
              /\ PollAdvance
              /\ UNCHANGED db
         [] r.kind = "json" ->
              /\ StoreReading(s.id, r.body)
              /\ UNCHANGED <<homes, rooms, sensors>>
              /\ IF SensorRow(s.id) = {}
                 THEN PollDie               \* line 94, sensor.name: ObjectDeletedError
                 ELSE /\ pollList' = Tail(pollList)
                      /\ pollExpired' = (Tail(pollList) # <<>>)
                      /\ pollPc' = IF Tail(pollList) = <<>> THEN "sleep" ELSE "visit"
         [] OTHER ->                        \* requests.get, .json() or .items() raises
              /\ PollDie
              /\ UNCHANGED db
    /\ UNCHANGED tog

----------------------------------------------------------------------------
(* toggle_sensor_relay (lines 197-217); the model follows one toggle        *)
(* request at a time.                                                      *)
NoSensor == [id |-> 0]
TogDone == {"idle", "404", "400", "302", "500"}

\* the handler returns (or an exception becomes a 500): its session is removed.
TogAnswer(status) ==
    /\ togPc' = status
    /\ togSensor' = NoSensor
    /\ togUrl' = ""

\* a suffix chosen on the state being present rather than being "on".
StateNumTruthy(new_state) == IF new_state # None THEN "1" ELSE "0"

\* line 205
StateNum(new_state) == IF new_state = "on" THEN "1" ELSE "0"

\* a test of line 202 written as "relay_endpoint is None".
NoRelayNoneOnly(sensor) == sensor.relay_endpoint = None

\* line 202: not sensor.relay_endpoint
NoRelay(sensor) == sensor.relay_endpoint = None \/ sensor.relay_endpoint = ""

\* lines 199-209, up to the relay GET being sent.
ToggleRequest(sensor_id, new_state) ==
    /\ togPc \in TogDone
    /\ IF SensorRow(sensor_id) = {}
       THEN TogAnswer("404")                                \* get_or_404
       ELSE LET sensor == CHOOSE x \in SensorRow(sensor_id) : TRUE IN
            IF NoRelay(sensor)
            THEN TogAnswer("400")
            ELSE /\ togPc' = "relay"
                 /\ togSensor' = sensor
                 /\ togUrl' = sensor.url \o sensor.relay_endpoint \o StateNum(new_state)
    /\ UNCHANGED <<db, poll>>

\* requests.get of line 209 returns or raises: lines 210-215 only print (an
\* exception of line 211 is caught with the others); then get_measurement,
\* lines 63-67, up to the data GET being sent.
ToggleRelayResponse(r) ==
    /\ togPc = "relay"
    /\ IF togSensor.data_endpoint = None
       THEN TogAnswer("500")                                \* str + None: TypeError
       ELSE /\ togPc' = "data"
            /\ UNCHANGED <<togSensor, togUrl>>
    /\ UNCHANGED <<db, poll>>

\* requests.get of line 67 returns r (or raises); lines 68-88, then line 217.
ToggleDataResponse(r) ==
    /\ togPc = "data"
    /\ CASE r.kind = "status" ->
              /\ TogAnswer("302")
              /\ UNCHANGED db
         [] r.kind = "json" ->
              /\ StoreReading(togSensor.id, r.body)
              /\ UNCHANGED <<homes, rooms, sensors>>
              /\ IF SensorRow(togSensor.id) = {}
                 THEN TogAnswer("500")      \* line 217, sensor.id: ObjectDeletedError
                 ELSE TogAnswer("302")
         [] OTHER ->
              /\ TogAnswer("500")
              /\ UNCHANGED db
    /\ UNCHANGED poll

----------------------------------------------------------------------------
Init ==
    /\ homes = {} /\ rooms = {} /\ sensors = {}
    /\ measurements = {} /\ types = {} /\ values = {}
    /\ pollPc = "sleep" /\ pollList = <<>> /\ pollExpired = FALSE
    /\ togPc = "idle" /\ togSensor = NoSensor /\ togUrl = ""

(* The whole application.  Its state space is too large to explore with   *)
(* every input; the specifications below restrict the routes and inputs,   *)
(* and each of their behaviours is a behaviour of Spec.                    *)
Next ==
    \/ add_home
    \/ \E h \in 1..MaxHomeId : delete_home(h)
    \/ \E h \in 1..MaxHomeId : add_room(h)
    \/ \E r \in 1..MaxRoomId : delete_room(r)
    \/ \E r \in 1..MaxRoomId, u \in Urls, f \in SensorForms : add_sensor(r, u, f)
    \/ \E s \in 1..MaxSensorId : delete_sensor(s)
    \/ PollCycle
    \/ PollVisit
    \/ \E r \in DataResponses : PollReceive(r)
    \/ \E s \in 1..MaxSensorId, st \in States : ToggleRequest(s, st)
    \/ \E r \in RelayResponses : ToggleRelayResponse(r)
    \/ \E r \in DataResponses : ToggleDataResponse(r)

Spec == Init /\ [][Next]_vars

(* The hierarchy: every CRUD route, and the polling thread filling the     *)
(* measurement tables from sensors that answer 200 or another status.      *)
CrudResponses == {[kind |-> "status"]} \cup Json({<<[key |-> "power", kind |-> "float"]>>})

NextCrud ==
    \/ add_home
    \/ \E h \in 1..MaxHomeId : delete_home(h)
    \/ \E h \in 1..MaxHomeId : add_room(h)
    \/ \E r \in 1..MaxRoomId : delete_room(r)
    \/ \E r \in 1..MaxRoomId, u \in Urls : add_sensor(r, u, FormPlain)
    \/ \E s \in 1..MaxSensorId : delete_sensor(s)
    \/ PollCycle
    \/ PollVisit
    \/ \E r \in CrudResponses : PollReceive(r)

SpecCrud == Init /\ [][NextCrud]_vars

(* The polling loop: sensors of one room come and go while the thread      *)
(* polls them; a reading has at most the key "power".                      *)
InitRoom ==
    /\ homes = {1} /\ rooms = {[id |-> 1, home_id |-> 1]} /\ sensors = {}
    /\ measurements = {} /\ types = {} /\ values = {}
    /\ pollPc = "sleep" /\ pollList = <<>> /\ pollExpired = FALSE
    /\ togPc = "idle" /\ togSensor = NoSensor /\ togUrl = ""

PollResponses == Failures \cup Json(BodiesOf({"power"}, {"float", "str"}))

NextPoll ==
    \/ \E r \in Ids(rooms), u \in Urls, f \in {FormPlain, FormBare} : add_sensor(r, u, f)
    \/ \E s \in 1..MaxSensorId : delete_sensor(s)
    \/ PollCycle
    \/ PollVisit
    \/ \E r \in PollResponses : PollReceive(r)

SpecPoll == InitRoom /\ [][NextPoll]_vars

(* The thread is scheduled, the interval wait of line 60 ends, and every   *)
(* request of line 67 returns or raises.                                   *)
LivePoll ==
    /\ SpecPoll
    /\ WF_vars(PollCycle)
    /\ WF_vars(PollVisit)
    /\ WF_vars(\E r \in PollResponses : PollReceive(r))

(* Readings: one sensor, polled by the thread and toggled by requests,     *)
(* answering with any response; the sensor may be deleted.                 *)
InitSensor ==
    /\ homes = {1} /\ rooms = {[id |-> 1, home_id |-> 1]}
    /\ \E f \in SensorForms :
          sensors = {[id |-> 1, room_id |-> 1, url |-> "http://s",
                      data_endpoint |-> f.data_endpoint,
                      relay_endpoint |-> f.relay_endpoint]}
    /\ measurements = {} /\ types = {} /\ values = {}
    /\ pollPc = "sleep" /\ pollList = <<>> /\ pollExpired = FALSE
    /\ togPc = "idle" /\ togSensor = NoSensor /\ togUrl = ""

NextReading ==
    \/ \E s \in 1..MaxSensorId : delete_sensor(s)
    \/ PollCycle
    \/ PollVisit
    \/ \E r \in DataResponses : PollReceive(r)
    \/ \E s \in 1..MaxSensorId, st \in States : ToggleRequest(s, st)
    \/ \E r \in RelayResponses : ToggleRelayResponse(r)
    \/ \E r \in DataResponses : ToggleDataResponse(r)

SpecReading == InitSensor /\ [][NextReading]_vars

----------------------------------------------------------------------------
(* Claims. *)

\* the rows a parent's deletion has to take with it, read off the foreign keys.
RoomsUnder(hs) == {r \in rooms : r.home_id \in hs}
SensorsUnder(rs) == {s \in sensors : \E r \in rs : s.room_id = r.id}
MeasurementsUnder(ss) == {m \in measurements : \E s \in ss : m.sensor_id = s.id}
ValuesUnder(ms) == {v \in values : \E m \in ms : v.measurement_id = m.id}

\* the step removed exactly the rooms rs, the sensors ss and what hangs under them.
Removed(rs, ss) ==
    /\ rooms' = rooms \ rs
    /\ sensors' = sensors \ ss
    /\ measurements' = measurements \ MeasurementsUnder(ss)
    /\ values' = values \ ValuesUnder(MeasurementsUnder(ss))
    /\ types' = types

C2_ValueReferences ==
    \A v \in values :
        /\ Cardinality({m \in measurements : m.id = v.measurement_id}) = 1
        /\ Cardinality({t \in types : t.id = v.measurement_type_id}) = 1

\* a value is stored, and a delete has already removed a measurement (the
\* surviving measurement does not carry the first id).
C2_Witness ==
    /\ values # {}
    /\ 1 \notin Ids(measurements)

\* C6: every Room references an existing Home, every Sensor an existing Room,
\* every Measurement an existing Sensor, in every reachable state.
C6_HierarchyIntact ==
    /\ \A r \in rooms : r.home_id \in homes
    /\ \A s \in sensors : s.room_id \in Ids(rooms)
    /\ \A m \in measurements : m.sensor_id \in Ids(sensors)

\* C3: at most one MeasurementType row per name, whatever the interleaving of
\* the polling thread's and the toggle handler's get_measurement calls.
C3_OneTypePerName ==
    \A t1 \in types, t2 \in types : t1.name = t2.name => t1.id = t2.id

\* the thread and a toggle request have both stored a reading, and the two
\* measurements share their one type row.
C3_Witness ==
    /\ pollPc = "sleep" /\ togPc = "302"
    /\ Cardinality(types) = 1
    /\ \E v1 \in values, v2 \in values :
          /\ v1.measurement_id # v2.measurement_id
          /\ v1.measurement_type_id = v2.measurement_type_id

\* the step stored the object `data` for sensor sensor_id: one new Measurement
\* and, under it, one new value per member whose kind is in nums and none for
\* the other members, each typed by the type named after the key.
Stored(sensor_id, data, nums) ==
    \E m \in measurements' \ measurements :
        /\ measurements' = measurements \cup {m}
        /\ m.sensor_id = sensor_id
        /\ values \subseteq values'
        /\ \A v \in values' \ values :
              /\ v.measurement_id = m.id
              /\ \E i \in 1..Len(data) : \E t \in types' :
                    t.id = v.measurement_type_id /\ t.name = data[i].key
        /\ \A i \in 1..Len(data) :
              Cardinality({v \in values' \ values :
                             \E t \in types' : /\ t.id = v.measurement_type_id
                                               /\ t.name = data[i].key})
                 = IF data[i].kind \in nums THEN 1 ELSE 0

\* get_measurement called by the polling thread, and by the toggle handler.
PollStores(nums) ==
    pollPc = "await" =>
       \A r \in JsonResponses :
           PollReceive(r) => Stored(Head(pollList).id, r.body, nums)

ToggleStores(nums) ==
    togPc = "data" =>
       \A r \in JsonResponses :
           ToggleDataResponse(r) => Stored(togSensor.id, r.body, nums)

\* C5 as stated: a 200 answer with a JSON object adds one Measurement and one
\* value per key whose value is an integer or a float, none for any other key.
C5_NumbersOnly == [][PollStores({"int", "float"})]_vars

\* C5 amended: a boolean value is stored as well (bool is an int in Python).
C5_NumbersAndBooleans ==
    [][ /\ PollStores({"int", "float", "bool"})
        /\ ToggleStores({"int", "float", "bool"}) ]_vars

\* a measurement with one value for each of two keys, and one with none.
C5_Witness ==
    /\ \E m \in measurements :
          Cardinality({v \in values : v.measurement_id = m.id}) = 2
    /\ \E m \in measurements :
          Cardinality({v \in values : v.measurement_id = m.id}) = 0

\* the sensor object the polling thread's session holds for the head of the
\* list: reloaded from the table when expired.
PollSees ==
    IF pollExpired THEN SensorRow(Head(pollList).id) ELSE {Head(pollList)}

\* C7: an exception while polling one sensor ends the thread: no sensor after
\* it is polled, nothing is retried, no later cycle starts.
C7_NoFailureIsolation ==
    [][ /\ \A r \in {[kind |-> "error"], [kind |-> "notjson"]} :
              PollReceive(r) => pollPc' = "dead"
        /\ (PollVisit /\ \E x \in PollSees : x.data_endpoint = None) => pollPc' = "dead"
        /\ pollPc = "dead" => pollPc' = "dead" /\ pollList' = <<>> ]_vars

\* the thread has ended while two sensors are in the table.
C7_Witness ==
    /\ pollPc = "dead"
    /\ Cardinality(sensors) = 2

\* the polling thread goes on with the next sensor of the cycle (or ends the
\* cycle) and the database is as before.
PollSkips ==
    /\ UNCHANGED db
    /\ pollList' = Tail(pollList)
    /\ pollPc' \in {"visit", "sleep"}

\* C9: a status other than 200 leaves the database unchanged and the cycle goes
\* on with the next sensor; the same when the sensor's row no longer exists.
C9_SkipsAndContinues ==
    [][ /\ PollReceive([kind |-> "status"]) => PollSkips
        /\ (PollVisit /\ SensorRow(Head(pollList).id) = {}) => PollSkips ]_vars

\* C10: a toggle for a sensor id that does not exist answers 404, one for a
\* sensor whose relay_endpoint is null or empty answers 400; neither sends a
\* request, fetches a measurement or changes the database.
C10_ToggleRefused ==
    [][ \A s \in 1..MaxSensorId, st \in States :
           ToggleRequest(s, st) =>
              /\ SensorRow(s) = {} =>
                    togPc' = "404" /\ togUrl' = "" /\ UNCHANGED db
              /\ \A x \in SensorRow(s) :
                    x.relay_endpoint \in {None, ""} =>
                       togPc' = "400" /\ togUrl' = "" /\ UNCHANGED db ]_vars

\* a toggle was refused with 400 for a sensor whose relay_endpoint is empty.
C10_Witness ==
    /\ togPc = "400"
    /\ \E x \in sensors : x.relay_endpoint = ""

\* the relay GET of a toggle for an existing sensor with a relay endpoint.
RelayGetSent ==
    \A s \in 1..MaxSensorId, st \in States :
        (togPc \in TogDone /\ ToggleRequest(s, st)) =>
           \A x \in SensorRow(s) :
              x.relay_endpoint \notin {None, ""} =>
                 /\ togPc' = "relay"
                 /\ togUrl' = x.url \o x.relay_endpoint \o (IF st = "on" THEN "1" ELSE "0")

\* C8 as stated: one relay GET with suffix "1" for "on" and "0" otherwise; then,
\* whatever the relay answered, one measurement fetch, and the handler ends
\* with the redirect.
C8_AlwaysRedirects ==
    [][ /\ RelayGetSent
        /\ togPc = "relay" => \A r \in RelayResponses :
              ToggleRelayResponse(r) => togPc' \in {"data", "302"}
        /\ togPc = "data" => \A r \in DataResponses :
              ToggleDataResponse(r) => togPc' = "302" ]_vars

\* C8 amended: the handler ends with the redirect when the fetch returns (a
\* status other than 200, or a reading stored for a sensor that still exists)
\* and with a server error when the fetch raises or the sensor was deleted
\* before the redirect is built.
C8_RedirectsUnlessFetchRaises ==
    [][ /\ RelayGetSent
        /\ togPc = "relay" => \A r \in RelayResponses :
              ToggleRelayResponse(r) =>
                 togPc' = IF togSensor.data_endpoint = None THEN "500" ELSE "data"
        /\ togPc = "data" => \A r \in DataResponses :
              ToggleDataResponse(r) =>
                 togPc' = IF \/ r.kind = "status"
                             \/ r.kind = "json" /\ SensorRow(togSensor.id) # {}
                          THEN "302" ELSE "500" ]_vars

\* a toggle ended with the redirect after storing a reading.
C8_Witness ==
    /\ togPc = "302"
    /\ measurements # {}

\* the polling thread has sent the GET of line 67 for sensor id s.
Polled(s) == pollPc = "await" /\ Head(pollList).id = s

====
